---- MODULE Spec2Model ----
(***************************************************************************)
(* Model of the asynchronous read/stream pipeline of greyhound's session   *)
(* handler add-on:                                                         *)
(*   src/session-handler/addon/pdal-bindings.cpp  PdalBindings::read,      *)
(*       PdalBindings::cancel, PdalBindings::errorCallback                 *)
(*   src/session-handler/addon/read-command.cpp   ReadCommandFactory,      *)
(*       ReadCommand                                                       *)
(* One PdalBindings object is modelled.  Every call of read() is a request *)
(* r = 1, 2, ...; an accepted request owns one ReadData record rd[r].      *)
(* The libuv main loop runs read(), cancel() and the after-work callbacks; *)
(* the thread pool runs the two work callbacks.  Each action below is one  *)
(* of those callbacks (the send loop is one action per loop iteration,     *)
(* because cancel() may run between two iterations).                       *)
(***************************************************************************)
EXTENDS Integers, Sequences, FiniteSets, TLC

(***************************************************************************)
(* Program constant and bounds of the model.                               *)
(***************************************************************************)
chunkSize == 65536

MaxReqs == 2

\* Datasets: point counts and strides (bytes per point) the session may
\* report.  Together they give empty buffers, a partial chunk, exactly one
\* chunk, one chunk and a partial one, and exactly two chunks.
PointCounts == {0, 2}
Strides == {49152, 65536}

Reqs == 1..MaxReqs
NULL == 0

Min(a, b) == IF a < b THEN a ELSE b

(***************************************************************************)
(* JavaScript values as the add-on sees them.  A number carries h, twice   *)
(* its value, so that 0.5 (h = 1) is a number that is not an integer.      *)
(***************************************************************************)
Undefined == [t |-> "undefined", h |-> 0]
Str == [t |-> "string", h |-> 0]
Fn == [t |-> "function", h |-> 0]
Bool(b) == [t |-> "boolean", h |-> IF b THEN 1 ELSE 0]
Num(h) == [t |-> "number", h |-> h]

IsUndefined(v) == v.t = "undefined"
IsString(v) == v.t = "string"
IsNumber(v) == v.t = "number"
IsFunction(v) == v.t = "function"
IsBoolean(v) == v.t = "boolean"

\* v8::Value::Uint32Value on a non-negative number below 2^32: the
\* fraction is dropped.
Uint32Value(v) == IF IsNumber(v) /\ v.h >= 0 THEN v.h \div 2 ELSE 0

VARIABLES
    session,      \* m_pdalSession: [numPoints, stride] of the loaded dataset
    m_readData,   \* PdalBindings::m_readData: NULL or the request it points to
    rd,           \* the ReadData records, by request
    pc,           \* where each request is in the pipeline
    nextReq,      \* number of read() calls made so far
    tokens,       \* the uv_work_t tokens readReq and sendReq of each request
    cbLog,        \* invocations of each request's callback, in order
    sent,         \* transmit(offset, length) calls that returned, in order
    events,       \* per request: retrieval end, callback, submit, chunks
    dataDeletes,  \* number of delete[] readData->data executed per request
    offset,       \* the send task's local variable offset
    sawCancel,    \* the send loop has read readData->cancel as true
    aborted,      \* the send loop was left by an exception of transmit()
    asked,        \* what read() was given: callback callable, start, count
    racy,         \* cancel() set the flag while the send task was pending
    lastCancel,   \* the latest cancel() call: what it found and returned
    threw,        \* which catch clause of the retrieval task ran, if any
    fac           \* last call of ReadCommandFactory::create and its outcome

vars == <<session, m_readData, rd, pc, nextReq, tokens, cbLog, sent, events,
          dataDeletes, offset, sawCancel, aborted, asked, racy, lastCancel,
          threw, fac>>

(***************************************************************************)
(* ReadData as constructed by read(): the fields the code reads or writes. *)
(***************************************************************************)
NoReadData ==
    [alive |-> FALSE, start |-> 0, count |-> 0, numPoints |-> 0,
     numBytes |-> 0, data |-> "null", bufferTransmitter |-> FALSE,
     errMsg |-> "", cancel |-> FALSE]

NewReadData(start, count) ==
    [NoReadData EXCEPT !.alive = TRUE, !.start = start, !.count = count]

NoTokens == [readReq |-> "none", sendReq |-> "none"]

NoCancel ==
    [called |-> FALSE, ret |-> FALSE, live |-> FALSE, again |-> FALSE]

NoAsk == [typed |-> FALSE, start |-> 0, count |-> 0, callable |-> FALSE]

NoFac == [called |-> FALSE]

Init ==
    /\ session \in [numPoints : PointCounts, stride : Strides]
    /\ m_readData = NULL
    /\ rd = [r \in Reqs |-> NoReadData]
    /\ pc = [r \in Reqs |-> "unused"]
    /\ nextReq = 0
    /\ tokens = [r \in Reqs |-> NoTokens]
    /\ cbLog = [r \in Reqs |-> <<>>]
    /\ sent = [r \in Reqs |-> <<>>]
    /\ events = [r \in Reqs |-> <<>>]
    /\ dataDeletes = [r \in Reqs |-> 0]
    /\ offset = [r \in Reqs |-> 0]
    /\ sawCancel = [r \in Reqs |-> FALSE]
    /\ aborted = [r \in Reqs |-> FALSE]
    /\ asked = [r \in Reqs |-> NoAsk]
    /\ racy = [r \in Reqs |-> FALSE]
    /\ lastCancel = NoCancel
    /\ threw = [r \in Reqs |-> "none"]
    /\ fac = NoFac

(***************************************************************************)
(* read(): argument validation, lines 216-237.                             *)
(***************************************************************************)
ReadErrMsg(args) ==
    IF IsUndefined(args[1]) \/ ~IsString(args[1])
        THEN "'host' must be a string - args[0]"
    ELSE IF IsUndefined(args[2]) \/ ~IsNumber(args[2])
        THEN "'port' must be a number - args[1]"
    ELSE IF IsUndefined(args[3]) \/ ~IsNumber(args[3])
        THEN "'start' offset must be a number - args[2]"
    ELSE IF IsUndefined(args[4]) \/ ~IsNumber(args[4])
        THEN "'count' must be a number - args[3]"
    ELSE ""

\* The throw of line 228 sits at the end of the else-if chain: it is reached
\* only when the four arguments before the callback are valid.
ReadThrows(args) ==
    /\ ReadErrMsg(args) = ""
    /\ IsUndefined(args[5]) \/ ~IsFunction(args[5])

\* Argument lists handed to read(): start offsets 0 and 0.5 or a string
\* with counts 0 and 2 or nothing, start offsets 1 and 2 with count 2, each
\* with or without a callback; and lists whose host or port is missing or
\* of another type.
ReadArgLists ==
    { <<Str, Num(2), a2, a3, a4>> :
        a2 \in {Num(0), Num(1), Str},
        a3 \in {Num(0), Num(4), Undefined},
        a4 \in {Fn, Undefined} }
    \cup
    { <<Str, Num(2), a2, Num(4), a4>> :
        a2 \in {Num(2), Num(4)},
        a4 \in {Fn, Undefined} }
    \cup
    { <<a0, a1, a2, Num(4), a4>> :
        a0 \in {Undefined, Num(2)},
        a1 \in {Num(2), Undefined},
        a2 \in {Num(0)},
        a4 \in {Fn, Undefined} }
    \cup
    { <<Str, a1, Num(0), Num(4), a4>> :
        a1 \in {Undefined, Str},
        a4 \in {Fn, Undefined} }

\* errorCallback(callback, errMsg): one call of the callback with the
\* message as its only argument.
\* (variant: the callback called a second time)
errorCallback_Twice(log, errMsg) == Append(Append(log, <<errMsg>>), <<errMsg>>)

errorCallback(log, errMsg) == Append(log, <<errMsg>>)

\* The start check of line 248.
InvalidStartMsg == "Invalid start offset in 'read' request"

\* (variant of the check: > for >=)
InvalidStart_OffByOne(start) == start > session.numPoints

InvalidStart(start) == start >= session.numPoints

\* obj->m_readData is assigned at line 258 only, in the branch that has
\* passed every check: p is its value before the call, r the new command.
\* (variant: the assignment made before the checks)
Tracked_BeforeChecks(p, r, accepted) == r

Tracked(p, r, accepted) == IF accepted THEN r ELSE p

PdalBindings_read ==
    /\ nextReq < MaxReqs
    /\ \E args \in ReadArgLists :
        LET r == nextReq + 1
            errMsg == ReadErrMsg(args)
            start == Uint32Value(args[3])
            count == Uint32Value(args[4])
            accepted == /\ ~ReadThrows(args) /\ errMsg = ""
                        /\ ~InvalidStart(start)
        IN
        /\ nextReq' = r
        /\ m_readData' = Tracked(m_readData, r, accepted)
        /\ asked' = [asked EXCEPT ![r] =
                IF errMsg = "" /\ ~ReadThrows(args)
                THEN [typed |-> TRUE, start |-> start, count |-> count,
                      callable |-> TRUE]
                ELSE [NoAsk EXCEPT !.callable = IsFunction(args[5])]]
        /\ IF ReadThrows(args) THEN
                \* std::runtime_error leaves read() before anything is done
                /\ pc' = [pc EXCEPT ![r] = "fatal"]
                /\ UNCHANGED <<rd, tokens, cbLog>>
           ELSE IF errMsg # "" THEN
                \* errorCallback on args[4] cast to a function; when args[4]
                \* is no function the call has no defined behaviour and is
                \* recorded as "badcall"
                /\ pc' = [pc EXCEPT ![r] =
                        IF IsFunction(args[5]) THEN "rejected" ELSE "badcall"]
                /\ cbLog' = [cbLog EXCEPT ![r] =
                        IF IsFunction(args[5]) THEN errorCallback(@, errMsg)
                        ELSE @]
                /\ UNCHANGED <<rd, tokens>>
           ELSE IF InvalidStart(start) THEN
                /\ pc' = [pc EXCEPT ![r] = "rejected"]
                /\ cbLog' = [cbLog EXCEPT ![r] =
                        errorCallback(@, InvalidStartMsg)]
                /\ UNCHANGED <<rd, tokens>>
           ELSE
                /\ tokens' = [tokens EXCEPT ![r].readReq = "alloc"]
                /\ rd' = [rd EXCEPT ![r] = NewReadData(start, count)]
                /\ pc' = [pc EXCEPT ![r] = "readQueued"]
                /\ UNCHANGED cbLog
    /\ UNCHANGED <<session, sent, events, dataDeletes, offset, sawCancel,
                   aborted, racy, lastCancel, threw, fac>>

(***************************************************************************)
(* The retrieval task, lines 274-309.  PdalSession::read and the           *)
(* BufferTransmitter constructor are not among the sources: the session    *)
(* returns the points of [start, start + count) that exist, and either     *)
(* call may throw a std::runtime_error or something else.  The message of  *)
(* a std::runtime_error is whatever its thrower gave it; "" is a message.  *)
(***************************************************************************)
RetrievalOutcomes ==
    {"ok", "read_runtime_error", "read_runtime_error_empty", "connect_other"}

PdalSession_read(start, count) == Min(count, session.numPoints - start)

\* Message left in readData->errMsg by the two catch clauses.
CaughtMsg(outcome) ==
    IF outcome = "ok" THEN ""
    ELSE IF outcome \in {"read_runtime_error", "connect_runtime_error"}
        THEN "e.what()"
    ELSE IF outcome = "read_runtime_error_empty"
        THEN ""
    ELSE "Unknown error"

\* The catch clause that ran: line 301, line 305, or none.
CaughtBy(outcome) ==
    IF outcome = "ok" THEN "none"
    ELSE IF outcome \in {"read_runtime_error", "read_runtime_error_empty",
                         "connect_runtime_error"}
        THEN "runtime_error"
    ELSE "other"

readWork(r) ==
    /\ pc[r] = "readQueued"
    /\ \E outcome \in RetrievalOutcomes :
        LET readThrew == outcome \in {"read_runtime_error", "read_other",
                                      "read_runtime_error_empty"}
            numPoints == PdalSession_read(rd[r].start, rd[r].count)
        IN
        /\ threw' = [threw EXCEPT ![r] = CaughtBy(outcome)]
        /\ rd' = [rd EXCEPT ![r] =
                IF readThrew
                THEN [@ EXCEPT !.errMsg = CaughtMsg(outcome)]
                ELSE [@ EXCEPT !.data = "alloc",
                               !.numPoints = numPoints,
                               !.numBytes = numPoints * session.stride,
                               !.bufferTransmitter = (outcome = "ok"),
                               !.errMsg = CaughtMsg(outcome)]]
    /\ pc' = [pc EXCEPT ![r] = "readDone"]
    /\ events' = [events EXCEPT ![r] = Append(@, "retrieved")]
    /\ UNCHANGED <<session, m_readData, nextReq, tokens, cbLog, sent,
                   dataDeletes, offset, sawCancel, aborted, asked, racy,
                   lastCancel, fac>>

(***************************************************************************)
(* delete [] readData->data; delete readData;  (lines 319-320, 390-391)    *)
(* The record's storage is released: of a deleted record the model keeps   *)
(* only what became of the buffer.                                         *)
(***************************************************************************)
\* (variant: delete readData without delete [] readData->data)
DeleteData_KeepBuffer(d) == [NoReadData EXCEPT !.data = d.data]

DeleteData(d) ==
    [NoReadData EXCEPT !.data = IF d.data = "alloc" THEN "freed"
                               ELSE IF d.data = "null" THEN "null"
                               ELSE "doubleFreed"]

(***************************************************************************)
(* After-work of the retrieval task, lines 310-397, on the main loop.      *)
(* uv_queue_work runs it once the work callback has returned.              *)
(***************************************************************************)
\* (variant: the after-work callback not waiting for the work callback)
WorkFinished_Early(r) == pc[r] \in {"readQueued", "readDone"}

WorkFinished(r) == pc[r] = "readDone"

readAfterWork(r) ==
    /\ WorkFinished(r)
    /\ IF rd[r].errMsg # "" THEN
            /\ cbLog' = [cbLog EXCEPT ![r] = errorCallback(@, rd[r].errMsg)]
            /\ rd' = [rd EXCEPT ![r] = DeleteData(@)]
            /\ dataDeletes' = [dataDeletes EXCEPT ![r] = @ + 1]
            /\ events' = [events EXCEPT ![r] = Append(@, "callback")]
            /\ pc' = [pc EXCEPT ![r] = "failed"]
            \* the early return of line 321 skips delete readReq
            /\ UNCHANGED tokens
       ELSE
            /\ cbLog' = [cbLog EXCEPT ![r] =
                    Append(@, <<"null", rd[r].numPoints, rd[r].numBytes>>)]
            /\ tokens' = [tokens EXCEPT ![r] =
                            [readReq |-> "freed", sendReq |-> "alloc"]]
            /\ events' = [events EXCEPT ![r] = @ \o <<"callback", "submit">>]
            /\ pc' = [pc EXCEPT ![r] = "sendQueued"]
            /\ UNCHANGED <<rd, dataDeletes>>
    /\ UNCHANGED <<session, m_readData, nextReq, sent, offset, sawCancel,
                   aborted, asked,
                   racy, lastCancel, threw, fac>>

(***************************************************************************)
(* The send task, lines 353-382.  A step of sendWorkIter is one evaluation *)
(* of the loop condition followed by the loop body or the exit; the first  *)
(* one, taken from "sendQueued", starts the work callback with offset 0.   *)
(***************************************************************************)
\* readData->cancel is a plain bool written by cancel() on the main loop and
\* read here on a pool thread.  A store made before the task was queued is
\* visible; a store that sets the flag while the task is queued or running
\* may or may not be seen by the next evaluation of the loop condition, and
\* is seen by the one after it.  A store of true over true leaves nothing
\* else to read.
\* (variant: a store made before the task was queued may be missed too)
CancelReads_Stale(r) == IF rd[r].cancel THEN {TRUE, FALSE} ELSE {FALSE}

CancelReads(r) ==
    IF rd[r].cancel /\ racy[r] THEN {TRUE, FALSE} ELSE {rd[r].cancel}

\* Length of the chunk transmitted at offset off, line 366.
\* (variant: without std::min)
ChunkLength_Full(numBytes, off) == chunkSize

ChunkLength(numBytes, off) == Min(chunkSize, numBytes - off)

\* Loop condition of line 362, given the value read from the flag.
\* (variant: without the test of the flag)
LoopContinues_IgnoreCancel(numBytes, off, cancelRead) == off < numBytes

\* (variant: <= for <)
LoopContinues_Inclusive(numBytes, off, cancelRead) ==
    off <= numBytes /\ ~cancelRead

LoopContinues(numBytes, off, cancelRead) == off < numBytes /\ ~cancelRead

\* The try block of lines 357-381 encloses the loop: an exception of
\* transmit() is caught after the loop and the work callback returns.
\* (variant: try and catch inside the loop body)
CaughtInSend_InsideLoop == "sending"

CaughtInSend == "sendDone"

sendWorkIter(r) ==
    /\ pc[r] \in {"sendQueued", "sending"}
    /\ \E cancelRead \in CancelReads(r), written \in BOOLEAN :
        /\ sawCancel' = [sawCancel EXCEPT ![r] = @ \/ cancelRead]
        /\ IF LoopContinues(rd[r].numBytes, offset[r], cancelRead) THEN
                IF written THEN
                    /\ sent' = [sent EXCEPT ![r] =
                        Append(@, <<offset[r],
                                    ChunkLength(rd[r].numBytes, offset[r])>>)]
                    /\ offset' = [offset EXCEPT ![r] = @ + chunkSize]
                    /\ events' = [events EXCEPT ![r] = Append(@, "chunk")]
                    /\ pc' = [pc EXCEPT ![r] = "sending"]
                    /\ UNCHANGED aborted
                ELSE
                    \* transmit() throws: caught by catch (...), the task ends
                    /\ pc' = [pc EXCEPT ![r] = CaughtInSend]
                    /\ aborted' = [aborted EXCEPT ![r] = TRUE]
                    /\ UNCHANGED <<sent, offset, events>>
           ELSE
                /\ pc' = [pc EXCEPT ![r] = "sendDone"]
                /\ UNCHANGED <<sent, offset, events, aborted>>
    /\ racy' = [racy EXCEPT ![r] = FALSE]
    /\ UNCHANGED <<session, m_readData, rd, nextReq, tokens, cbLog,
                   dataDeletes, asked, lastCancel, threw, fac>>

(***************************************************************************)
(* After-work of the send task, lines 383-393, on the main loop.           *)
(***************************************************************************)
\* (variant: a cancelled transmission returning before the deletes)
SendCleanup_SkipCancelled(d) == IF d.cancel THEN d ELSE DeleteData(d)

SendCleanup(d) == DeleteData(d)

sendAfterWork(r) ==
    /\ pc[r] = "sendDone"
    /\ rd' = [rd EXCEPT ![r] = SendCleanup(@)]
    /\ dataDeletes' = [dataDeletes EXCEPT ![r] = @ + 1]
    /\ tokens' = [tokens EXCEPT ![r].sendReq = "freed"]
    /\ pc' = [pc EXCEPT ![r] = "done"]
    /\ UNCHANGED <<session, m_readData, nextReq, cbLog, sent, events, offset,
                   sawCancel, aborted, asked, racy, lastCancel, threw, fac>>

(***************************************************************************)
(* cancel(), lines 404-420.  m_readData is never reset, so after the       *)
(* record it points to was deleted the test of line 412 still succeeds and *)
(* the store of line 414 goes to released storage (no live record of this  *)
(* object changes).                                                        *)
(***************************************************************************)
\* (variant: true only when the flag was not set before)
CancelReturn_Once(p) == p # NULL /\ ~rd[p].cancel

CancelReturn(p) == p # NULL

\* The store of line 414, given the flag's value before it.
\* (variant: the call toggles the flag)
CancelStore_Toggle(flag) == ~flag

CancelStore(flag) == TRUE

PdalBindings_cancel ==
    /\ LET p == m_readData
           live == p # NULL /\ rd[p].alive
       IN
       /\ lastCancel' =
            [called |-> TRUE, ret |-> CancelReturn(p), live |-> live,
             again |-> live /\ rd[p].cancel]
       /\ IF live
          THEN /\ rd' = [rd EXCEPT ![p].cancel = CancelStore(@)]
               /\ racy' = [racy EXCEPT ![p] =
                            @ \/ (/\ ~rd[p].cancel
                                  /\ pc[p] \in {"sendQueued", "sending"})]
          ELSE UNCHANGED <<rd, racy>>
    /\ UNCHANGED <<session, m_readData, pc, nextReq, tokens, cbLog, sent,
                   events, dataDeletes, offset, sawCancel, aborted, asked,
                   threw, fac>>

Next ==
    \/ PdalBindings_read
    \/ PdalBindings_cancel
    \/ \E r \in Reqs : readWork(r)
    \/ \E r \in Reqs : readAfterWork(r)
    \/ \E r \in Reqs : sendWorkIter(r)
    \/ \E r \in Reqs : sendAfterWork(r)

Spec == Init /\ [][Next]_vars

(***************************************************************************)
(* read-command.cpp: ReadCommandFactory::create.  Values of the argument   *)
(* list beyond those of read(): arrays and schema descriptors.             *)
(***************************************************************************)
Arr(elems) == [t |-> "array", h |-> 0, elems |-> elems]
SchemaObj(hasDims, dims) ==
    [t |-> "object", h |-> 0, hasDims |-> hasDims, dims |-> dims]

IsArray(v) == v.t = "array"
\* v8::Value::IsObject holds of arrays and functions too.
IsObject(v) == v.t \in {"object", "array", "function"}
ArrayLength(v) == Len(v.elems)
\* Array::Get: an index past the end yields undefined.
ArrayGet(v, i) == IF i < Len(v.elems) THEN v.elems[i + 1] ELSE Undefined
\* Value::NumberValue, as twice the value.
NumberValue(v) == v.h

\* isInteger, lines 8-11: IsInt32() || IsUint32().
isInteger(v) == IsNumber(v) /\ v.h % 2 = 0
\* isDefined, lines 13-16.
isDefined(v) == ~IsUndefined(v)

(***************************************************************************)
(* strtoul(s, 0, 0) on a string of characters, line 212: base 16 after     *)
(* "0x", base 8 after "0", base 10 otherwise; the digits of the base are   *)
(* read up to the first other character; no digit at all gives 0.          *)
(***************************************************************************)
DigitValue(c) ==
    CASE c = "0" -> 0 [] c = "1" -> 1 [] c = "2" -> 2 [] c = "3" -> 3
      [] c = "4" -> 4 [] c = "5" -> 5 [] c = "6" -> 6 [] c = "7" -> 7
      [] c = "8" -> 8 [] c = "9" -> 9 [] c = "a" -> 10 [] c = "b" -> 11
      [] c = "c" -> 12 [] c = "d" -> 13 [] c = "e" -> 14 [] c = "f" -> 15
      [] OTHER -> 99

RECURSIVE ParseDigits(_, _, _)
ParseDigits(s, base, acc) ==
    IF s = <<>> \/ DigitValue(Head(s)) >= base THEN acc
    ELSE ParseDigits(Tail(s), base, acc * base + DigitValue(Head(s)))

strtoul(s) ==
    IF Len(s) >= 3 /\ s[1] = "0" /\ s[2] = "x" /\ DigitValue(s[3]) < 16
        THEN ParseDigits(SubSeq(s, 3, Len(s)), 16, 0)
    ELSE IF Len(s) >= 1 /\ s[1] = "0"
        THEN ParseDigits(Tail(s), 8, 0)
    ELSE ParseDigits(s, 10, 0)

(***************************************************************************)
(* Schema parsing, lines 195-225: a dimension is kept when its parsed size *)
(* is not zero.                                                            *)
(***************************************************************************)
DimensionRequest(name, type, size) ==
    [name |-> name, type |-> type, size |-> size]

\* (variant: without the test of line 214)
RECURSIVE ParseDims_KeepZero(_)
ParseDims_KeepZero(dims) ==
    IF dims = <<>> THEN <<>>
    ELSE LET d == Head(dims) IN
         <<DimensionRequest(d.name, d.type, strtoul(d.size))>>
            \o ParseDims_KeepZero(Tail(dims))

RECURSIVE ParseDims(_)
ParseDims(dims) ==
    IF dims = <<>> THEN <<>>
    ELSE LET d == Head(dims)
             size == strtoul(d.size)
         IN (IF size # 0 THEN <<DimensionRequest(d.name, d.type, size)>>
             ELSE <<>>) \o ParseDims(Tail(dims))

ParseSchema(schemaObj) ==
    IF schemaObj.t = "object" /\ schemaObj.hasDims
    THEN ParseDims(schemaObj.dims) ELSE <<>>

\* The dimensions the session's point context reports, in its order.
NativeSchema ==
    << DimensionRequest("X", "floating", 8),
       DimensionRequest("Y", "floating", 8),
       DimensionRequest("Z", "floating", 8),
       DimensionRequest("Intensity", "unsigned", 2) >>

\* ReadCommand::schemaOrDefault, lines 77-101.
schemaOrDefault(reqSchema) ==
    IF Len(reqSchema) > 0 THEN reqSchema ELSE NativeSchema

\* getStride, lines 18-28.
RECURSIVE getStride(_)
getStride(schema) ==
    IF schema = <<>> THEN 0 ELSE Head(schema).size + getStride(Tail(schema))

(***************************************************************************)
(* ReadCommand::ReadCommand, lines 52-75, with the fields of the variant   *)
(* in q.                                                                   *)
(***************************************************************************)
ReadCommand(kind, schema, q) ==
    [kind |-> kind,
     schema |-> schemaOrDefault(schema),
     stride |-> getStride(schemaOrDefault(schema)),
     cancel |-> FALSE,
     data |-> "alloc",
     bufferTransmitter |-> FALSE,
     errMsg |-> "",
     numPoints |-> 0,
     numBytes |-> 0,
     q |-> q]

NoCommand == [kind |-> "none"]

\* What create() did: the command it returned, the calls it made of the
\* callback, whether it threw.
Created(cmd) == [cmd |-> cmd, cb |-> <<>>, thrown |-> FALSE]
\* (variant: an error branch that returns without calling errorCallback)
Failed_Silent(errMsg) == [cmd |-> NoCommand, cb |-> <<>>, thrown |-> FALSE]

Failed(errMsg) == [cmd |-> NoCommand, cb |-> errorCallback(<<>>, errMsg),
                   thrown |-> FALSE]
Thrown == [cmd |-> NoCommand, cb |-> <<>>, thrown |-> TRUE]

\* Line 284.
ValidBBox(xMin, yMin, xMax, yMax) == xMax >= xMin /\ yMax >= xMin

\* Lines 252-261.
IsQuadIndexShape(args) ==
    /\ Len(args) = 7
    /\ \/ isDefined(args[4]) /\ IsArray(args[4]) /\ ArrayLength(args[4]) >= 4
       \/ ~isDefined(args[4])
    /\ isDefined(args[5]) /\ isInteger(args[5])
    /\ isDefined(args[6]) /\ isInteger(args[6])

\* Lines 263-320.
CreateQuadIndex(args, schema) ==
    LET depthBegin == Uint32Value(args[5])
        depthEnd == Uint32Value(args[6])
        bbox == args[4]
    IN
    IF isDefined(bbox) THEN
        IF /\ IsNumber(ArrayGet(bbox, 0)) /\ IsNumber(ArrayGet(bbox, 1))
           /\ IsNumber(ArrayGet(bbox, 2)) /\ IsNumber(ArrayGet(bbox, 3))
        THEN
            LET xMin == NumberValue(ArrayGet(bbox, 0))
                yMin == NumberValue(ArrayGet(bbox, 1))
                xMax == NumberValue(ArrayGet(bbox, 2))
                yMax == NumberValue(ArrayGet(bbox, 3))
            IN
            IF ValidBBox(xMin, yMin, xMax, yMax)
            THEN Created(ReadCommand("quadIndex", schema,
                    [isBBoxQuery |-> TRUE, xMin |-> xMin, yMin |-> yMin,
                     xMax |-> xMax, yMax |-> yMax,
                     depthBegin |-> depthBegin, depthEnd |-> depthEnd]))
            ELSE Failed("Invalid coords in query")
        ELSE Failed("Invalid coord types in query")
    ELSE Created(ReadCommand("quadIndex", schema,
            [isBBoxQuery |-> FALSE,
             depthBegin |-> depthBegin, depthEnd |-> depthEnd]))

\* Lines 228-251.
IsUnindexedShape(args) ==
    /\ Len(args) = 6
    /\ isDefined(args[4]) /\ isInteger(args[4])
    /\ isDefined(args[5]) /\ isInteger(args[5])

CreateUnindexed(args, schema) ==
    LET start == Uint32Value(args[4])
        count == Uint32Value(args[5])
    IN
    IF start < session.numPoints
    THEN Created(ReadCommand("unindexed", schema,
            [start |-> start, count |-> count]))
    ELSE Failed("Invalid 'start' in 'read' request")

\* Lines 323-348.
IsPointRadiusShape(args) ==
    /\ Len(args) = 9
    /\ isDefined(args[4]) /\ IsBoolean(args[4])
    /\ isDefined(args[5]) /\ IsNumber(args[5])
    /\ isDefined(args[6]) /\ IsNumber(args[6])
    /\ isDefined(args[7]) /\ IsNumber(args[7])
    /\ isDefined(args[8]) /\ IsNumber(args[8])

CreatePointRadius(args, schema) ==
    Created(ReadCommand("pointRadius", schema,
        [is3d |-> args[4].h = 1, radius |-> NumberValue(args[5]),
         x |-> NumberValue(args[6]), y |-> NumberValue(args[7]),
         z |-> NumberValue(args[8])]))

\* Lines 186-191.
HasHostPortSchema(args) ==
    /\ Len(args) > 3
    /\ isDefined(args[1]) /\ IsString(args[1])
    /\ isDefined(args[2]) /\ isInteger(args[2])
    /\ isDefined(args[3]) /\ IsObject(args[3])

\* ReadCommandFactory::create, lines 166-361.
create(args) ==
    IF Len(args) = 0 \/ ~IsFunction(args[Len(args)]) THEN Thrown
    ELSE IF HasHostPortSchema(args) THEN
        LET schema == ParseSchema(args[3]) IN
        IF IsUnindexedShape(args) THEN CreateUnindexed(args, schema)
        ELSE IF IsQuadIndexShape(args) THEN CreateQuadIndex(args, schema)
        ELSE IF IsPointRadiusShape(args) THEN CreatePointRadius(args, schema)
        ELSE Failed("Could not identify 'read' from args")
    ELSE Failed("Host, port, and callback must be supplied")

(***************************************************************************)
(* Argument lists handed to the factory.                                   *)
(***************************************************************************)
Coords == {Num(0), Num(1), Num(2), Num(4)}

BBoxes ==
    { Arr(<<a, b, c, d>>) :
        a \in Coords, b \in Coords, c \in Coords, d \in Coords }
    \cup { Arr(<<Num(0), Num(0), Num(2)>>),
           Arr(<<Num(0), Num(0), Num(2), Num(2), Num(4)>>),
           Arr(<<Num(2), Num(2), Num(0), Num(0), Num(4)>>),
           Arr(<<Num(0), Str, Num(2), Num(2)>>),
           Arr(<<Num(0), Num(0), Num(2), Undefined>>),
           Arr(<<>>) }

Dim(name, size) == [name |-> name, type |-> "floating", size |-> size]

Schemas ==
    { SchemaObj(FALSE, <<>>),
      SchemaObj(TRUE, <<>>),
      SchemaObj(TRUE, <<Dim("X", <<"8">>), Dim("Y", <<"4">>)>>),
      SchemaObj(TRUE, <<Dim("X", <<"8">>), Dim("Y", <<"0">>),
                        Dim("Z", <<"4">>)>>),
      SchemaObj(TRUE, <<Dim("X", <<"0">>), Dim("Y", <<"a", "b">>)>>),
      SchemaObj(TRUE, <<Dim("X", <<"0", "x", "1", "0">>),
                        Dim("Y", <<"0", "1", "0">>),
                        Dim("Z", <<"4", "x">>), Dim("W", <<>>)>>) }

FullSchema == SchemaObj(TRUE, <<Dim("X", <<"8">>), Dim("Y", <<"4">>)>>)

\* host, port, schema: as they should be, or one of them not.
Prefixes ==
    { <<Str, Num(2), sc>> : sc \in Schemas }
    \cup { <<Undefined, Num(2), FullSchema>>, <<Num(2), Num(2), FullSchema>>,
           <<Str, Undefined, FullSchema>>, <<Str, Num(1), FullSchema>>,
           <<Str, Num(2), Undefined>>, <<Str, Num(2), Str>>,
           <<Str, Num(2), Arr(<<>>)>> }

Callbacks == {Fn, Undefined}

Tails ==
    { <<s, c>> : s \in {Num(0), Num(1), Num(2), Num(4), Undefined},
                 c \in {Num(0), Num(4), Str} }
    \cup { <<b, Num(0), Num(2)>> : b \in BBoxes \cup {Undefined, Str} }
    \cup { <<Arr(<<Num(0), Num(0), Num(2), Num(2)>>), d, e>> :
             d \in {Num(1), Undefined}, e \in {Num(2), Str} }
    \cup { <<is3d, Num(2), x, Num(0), z>> :
             is3d \in {Bool(TRUE), Bool(FALSE), Num(2)},
             x \in {Num(0), Undefined}, z \in {Num(0), Str} }
    \cup { <<>>, <<Num(0)>>, <<Num(0), Num(0), Num(0), Num(0)>> }

FactoryArgLists ==
    { p \o t \o <<cb>> : p \in Prefixes, t \in Tails, cb \in Callbacks }
    \cup { <<>>, <<Fn>>, <<Str, Num(2), Fn>> }

\* create() reads the session and its arguments and keeps nothing between
\* calls: a behaviour makes one call.
ReadCommandFactory_create ==
    /\ ~fac.called
    /\ \E args \in FactoryArgLists :
        fac' = [called |-> TRUE, args |-> args, out |-> create(args)]
    /\ UNCHANGED <<session, m_readData, rd, pc, nextReq, tokens, cbLog, sent,
                   events, dataDeletes, offset, sawCancel, aborted, asked,
                   racy, lastCancel, threw>>

(***************************************************************************)
(* ReadCommand*::run, lines 116-164: the session's read fills the buffer   *)
(* and returns the number of points, setNumPoints stores it with the byte  *)
(* count, and the transmitter is constructed.  The session is not among    *)
(* the sources: an indexed read returns some number of the dataset's       *)
(* points.                                                                 *)
(***************************************************************************)
\* (variant: the stride of the session's native schema for m_stride)
setNumPoints_NativeStride(cmd, numPoints) ==
    [cmd EXCEPT !.numPoints = numPoints,
                !.numBytes = numPoints * getStride(NativeSchema)]

\* ReadCommand::setNumPoints, lines 110-114.
setNumPoints(cmd, numPoints) ==
    [cmd EXCEPT !.numPoints = numPoints,
                !.numBytes = numPoints * cmd.stride]

\* Point counts the session's read may return for the command.
RunResults(cmd) ==
    IF cmd.kind = "unindexed"
    THEN {PdalSession_read(cmd.q.start, cmd.q.count)}
    ELSE 0..session.numPoints

ReadCommand_run ==
    /\ fac.called
    /\ fac.out.cmd.kind # "none"
    /\ ~fac.out.cmd.bufferTransmitter
    /\ \E numPoints \in RunResults(fac.out.cmd) :
        fac' = [fac EXCEPT !.out.cmd =
                    [setNumPoints(@, numPoints)
                        EXCEPT !.bufferTransmitter = TRUE]]
    /\ UNCHANGED <<session, m_readData, rd, pc, nextReq, tokens, cbLog, sent,
                   events, dataDeletes, offset, sawCancel, aborted, asked,
                   racy, lastCancel, threw>>

NextFactory ==
    \/ ReadCommandFactory_create
    \/ ReadCommand_run

SpecFactory == Init /\ [][NextFactory]_vars

(***************************************************************************)
(* The pool threads and the main loop run every callback that is queued.   *)
(***************************************************************************)
Fairness ==
    \A r \in Reqs :
        /\ WF_vars(readWork(r))
        /\ WF_vars(readAfterWork(r))
        /\ WF_vars(sendWorkIter(r))
        /\ WF_vars(sendAfterWork(r))

SpecFair == Init /\ [][Next]_vars /\ Fairness

(***************************************************************************)
(* Properties.                                                             *)
(***************************************************************************)
Accepted(r) ==
    pc[r] \in {"readQueued", "readDone", "sendQueued", "sending",
               "sendDone", "done", "failed"}
Terminal(r) == pc[r] \in {"done", "failed"}
InTransmission(r) == pc[r] \in {"sendQueued", "sending", "sendDone"}

\* The counts callback was made: (null, numPoints, numBytes).
Succeeded(r) == Len(cbLog[r]) = 1 /\ Len(cbLog[r][1]) = 3
ReportedBytes(r) == IF Succeeded(r) THEN cbLog[r][1][3] ELSE 0

RECURSIVE SumLengths(_)
SumLengths(chunks) ==
    IF chunks = <<>> THEN 0 ELSE Head(chunks)[2] + SumLengths(Tail(chunks))

\* C1: an accepted request's buffer is released exactly once: delete[] runs
\* once on the way into the terminal step, whichever path leads there, never
\* twice, never before; no terminal request still holds its buffer.
C1_BufferReleasedOnce ==
    \A r \in Reqs :
        /\ dataDeletes[r] <= 1
        /\ rd[r].data # "doubleFreed"
        /\ Accepted(r) /\ Terminal(r) =>
                dataDeletes[r] = 1 /\ rd[r].data # "alloc" /\ ~rd[r].alive
        /\ Accepted(r) /\ ~Terminal(r) =>
                dataDeletes[r] = 0 /\ rd[r].data # "freed" /\ rd[r].alive

\* Two exit paths at once: one request cancelled in mid-transmission and done,
\* the other failed in retrieval after its buffer was allocated.
C1_Witness ==
    \E r, q \in Reqs :
        /\ pc[r] = "done" /\ sawCancel[r] /\ rd[r].data = "freed"
        /\ pc[q] = "failed" /\ rd[q].data = "freed"

\* C2: a request whose callback is callable has it invoked exactly once: with
\* one error message when it is rejected or its retrieval fails, with
\* (null, numPoints, numBytes) when retrieval succeeds; nothing the
\* transmission does invokes it again.
C2_CallbackOnce ==
    \A r \in Reqs :
        /\ Len(cbLog[r]) <= 1
        /\ pc[r] \in {"rejected", "failed"} =>
                Len(cbLog[r]) = 1 /\ Len(cbLog[r][1]) = 1
        /\ pc[r] \in {"readQueued", "readDone"} => cbLog[r] = <<>>
        /\ InTransmission(r) =>
                cbLog[r] = << <<"null", rd[r].numPoints, rd[r].numBytes>> >>
        /\ pc[r] = "done" => Succeeded(r) /\ cbLog[r][1][1] = "null"

\* A transmission that a write error aborted, and a rejected request.
C2_Witness ==
    \E r, q \in Reqs :
        /\ pc[r] = "done" /\ aborted[r] /\ Len(sent[r]) = 1 /\ Len(cbLog[r]) = 1
        /\ pc[q] = "rejected" /\ Len(cbLog[q]) = 1

\* C3: for one command the retrieval task has finished before the counts
\* callback is made, the send task is submitted after the callback, and every
\* chunk is transmitted after that; the send token exists only once the
\* callback has been made.
C3_Ordering ==
    \A r \in Reqs :
        LET e == events[r] IN
        /\ \A i \in 1..Len(e) :
            /\ e[i] = "retrieved" => i = 1
            /\ e[i] = "callback" => i = 2 /\ e[1] = "retrieved"
            /\ e[i] = "submit" => i = 3 /\ e[2] = "callback"
            /\ e[i] = "chunk" => i > 3 /\ e[3] = "submit"
        /\ Len(sent[r]) = Cardinality({i \in 1..Len(e) : e[i] = "chunk"})
        /\ Accepted(r) =>
             Len(cbLog[r]) = Cardinality({i \in 1..Len(e) : e[i] = "callback"})
        /\ tokens[r].sendReq # "none" => Succeeded(r)
        /\ Len(sent[r]) > 0 => Succeeded(r) /\ tokens[r].readReq = "freed"

\* A command that went through retrieval, callback, submission and two chunks.
C3_Witness ==
    \E r \in Reqs :
        events[r] = <<"retrieved", "callback", "submit", "chunk", "chunk">>

\* C4: a transmission that was neither cancelled nor aborted made the calls
\* transmit(0, .), transmit(64 KiB, .), ...: offsets rise by the chunk size,
\* every chunk but the last is 64 KiB long, the last holds numBytes mod 64 KiB
\* bytes (64 KiB when that is 0), the chunks cover [0, numBytes) exactly; and
\* no chunk of any transmission ends past numBytes.
C4_Chunks ==
    \A r \in Reqs :
        LET n == Len(sent[r])
            numBytes == ReportedBytes(r)
        IN
        /\ \A i \in 1..n : sent[r][i][1] + sent[r][i][2] <= numBytes
        /\ (pc[r] \in {"sendDone", "done"} /\ ~sawCancel[r] /\ ~aborted[r]) =>
            /\ \A i \in 1..n :
                /\ sent[r][i][1] = (i - 1) * chunkSize
                /\ i < n => sent[r][i][2] = chunkSize
                /\ i = n => sent[r][i][2] =
                                IF numBytes % chunkSize = 0 THEN chunkSize
                                ELSE numBytes % chunkSize
                /\ i < n => sent[r][i + 1][1] = sent[r][i][1] + sent[r][i][2]
            /\ SumLengths(sent[r]) = numBytes
            /\ n = 0 <=> numBytes = 0

\* A complete transmission of a full chunk followed by a partial one.
C4_Witness ==
    \E r \in Reqs :
        /\ pc[r] = "done" /\ ~sawCancel[r] /\ ~aborted[r]
        /\ Len(sent[r]) = 2 /\ sent[r][2][2] < chunkSize

\* C5: once the send loop has read the cancellation flag as true it transmits
\* no further chunk; the bytes transmitted never exceed numBytes; the buffer
\* is released at most once and every chunk is transmitted from a buffer that
\* is still allocated.
C5_CancelDuringSend ==
    /\ [](\A r \in Reqs :
            /\ SumLengths(sent[r]) <= ReportedBytes(r)
            /\ dataDeletes[r] <= 1
            /\ rd[r].data # "doubleFreed")
    /\ [][\A r \in Reqs :
            /\ sawCancel[r] => sent'[r] = sent[r]
            /\ sent'[r] # sent[r] => rd[r].alive /\ rd[r].data = "alloc"]_vars

\* The loop read the flag as true after its first chunk, with bytes left.
C5_Witness ==
    \E r \in Reqs :
        /\ sawCancel[r] /\ pc[r] = "done" /\ rd[r].data = "freed"
        /\ Len(sent[r]) = 1 /\ ReportedBytes(r) > chunkSize

\* C6: a transmission whose cancellation was requested reaches the terminal
\* state: the send task ends, the after-work step runs delete[] on the
\* buffer once (no buffer is held afterwards; the pointer is null when the
\* retrieval threw before allocating), frees the record and the send token,
\* and the callback has still been made once.
C6_CancelledTerminates ==
    \A r \in Reqs :
        (rd[r].cancel /\ InTransmission(r))
            ~> (/\ pc[r] = "done"
                /\ dataDeletes[r] = 1 /\ rd[r].data \in {"freed", "null"}
                /\ ~rd[r].alive
                /\ tokens[r].sendReq = "freed"
                /\ Len(cbLog[r]) = 1)

\* Cancelled before the first chunk of a buffer that is not empty.
C6_Witness ==
    \E r \in Reqs :
        /\ sawCancel[r] /\ pc[r] = "done" /\ rd[r].data = "freed"
        /\ sent[r] = <<>> /\ ReportedBytes(r) > 0

\* C7 as stated: of two cancel calls on a command that is in flight at both,
\* the first returns true and the second returns false.
C7_TrueThenFalse ==
    /\ (lastCancel.called /\ lastCancel.live /\ ~lastCancel.again)
            => lastCancel.ret
    /\ lastCancel.again => ~lastCancel.ret

\* C7, amended: of two cancel calls on a command that is in flight at both,
\* each returns true (the second finds the flag already set).
C7_BothTrue ==
    /\ (lastCancel.called /\ lastCancel.live /\ ~lastCancel.again)
            => lastCancel.ret
    /\ lastCancel.again => lastCancel.ret

\* A second cancel call on the command in flight.
C7_Witness == lastCancel.called /\ lastCancel.again /\ lastCancel.ret

\* C8: cancel returns true only when the handle tracks a command that is in
\* flight; it returns false when no read was accepted on the handle and when
\* the latest command has reached its terminal state.
C8_TrueOnlyInFlight ==
    lastCancel.called => (lastCancel.ret => lastCancel.live)

\* C10: a typed range request is rejected exactly when its start offset is at
\* least the dataset's point count: then the callback gets the invalid-start
\* message, no record and no work token exist and the handle does not track
\* it; with a smaller start the request is accepted, whatever its count.
C10_StartCheck ==
    \A r \in Reqs :
        asked[r].typed =>
            IF asked[r].start >= session.numPoints
            THEN /\ pc[r] = "rejected"
                 /\ cbLog[r] = << <<InvalidStartMsg>> >>
                 /\ rd[r] = NoReadData
                 /\ tokens[r] = NoTokens
                 /\ m_readData # r
            ELSE /\ Accepted(r)
                 /\ tokens[r].readReq # "none"

\* A start equal to the point count rejected, and a start below it accepted
\* with count 0.
C10_Witness ==
    \E r, q \in Reqs :
        /\ asked[r].typed /\ session.numPoints > 0
        /\ asked[r].start = session.numPoints /\ pc[r] = "rejected"
        /\ asked[q].typed /\ asked[q].count = 0 /\ Accepted(q)

(***************************************************************************)
(* Properties of the factory.                                              *)
(***************************************************************************)
\* A call of 7 arguments with valid host, port, schema, depths and callback
\* whose argument 3 is an array of exactly 4 numbers.
IsBBoxQuery(args) ==
    /\ Len(args) = 7
    /\ IsFunction(args[7])
    /\ HasHostPortSchema(args)
    /\ isInteger(args[5]) /\ isInteger(args[6])
    /\ IsArray(args[4]) /\ ArrayLength(args[4]) = 4
    /\ \A i \in 0..3 : IsNumber(ArrayGet(args[4], i))

\* C9: a spatial query whose bbox [xMin, yMin, xMax, yMax] has xMax < xMin or
\* yMax < yMin creates no command and reports the coordinate error through
\* the callback.
C9_BadBBoxRejected ==
    (fac.called /\ IsBBoxQuery(fac.args)) =>
        LET b == fac.args[4]
            xMin == NumberValue(ArrayGet(b, 0))
            yMin == NumberValue(ArrayGet(b, 1))
            xMax == NumberValue(ArrayGet(b, 2))
            yMax == NumberValue(ArrayGet(b, 3))
        IN (xMax < xMin \/ yMax < yMin) =>
                /\ fac.out.cmd = NoCommand
                /\ fac.out.cb = << <<"Invalid coords in query">> >>
                /\ ~fac.out.thrown

(***************************************************************************)
(* Failures of the two tasks.                                              *)
(***************************************************************************)
\* C11: when the retrieval task caught an exception, the callback is invoked
\* with the error message as its only argument, no send task is ever queued,
\* no chunk is sent, and the buffer is released.
C11_RetrievalFailure ==
    \A r \in Reqs :
        threw[r] # "none" =>
            /\ pc[r] \in {"readDone", "failed"}
            /\ tokens[r].sendReq = "none"
            /\ sent[r] = <<>>
            /\ pc[r] = "failed" =>
                    /\ Len(cbLog[r]) = 1 /\ Len(cbLog[r][1]) = 1
                    /\ dataDeletes[r] = 1 /\ rd[r].data # "alloc"

\* The retrieval task caught an exception after the buffer was allocated:
\* PdalSession::read had returned and the BufferTransmitter constructor
\* threw (lines 293-299 are inside the try block of the retrieval task).
ConnectFailed(r) == threw[r] # "none" /\ rd[r].data # "null"

C13_BytesArePointsTimesStride ==
    (fac.called /\ fac.out.cmd.kind # "none"
               /\ fac.out.cmd.bufferTransmitter) =>
        LET cmd == fac.out.cmd
            resolved == schemaOrDefault(ParseSchema(fac.args[3]))
        IN
        /\ cmd.schema = resolved
        /\ cmd.stride = getStride(resolved)
        /\ cmd.numBytes = cmd.numPoints * getStride(resolved)
        /\ cmd.kind = "unindexed" =>
                /\ cmd.q.start < session.numPoints
                /\ cmd.numPoints <= cmd.q.count

\* A range query with a requested schema that ran into the end of the
\* dataset: fewer points than asked for.
C13_Witness ==
    /\ fac.called /\ fac.out.cmd.kind = "unindexed"
    /\ fac.out.cmd.bufferTransmitter
    /\ Len(ParseSchema(fac.args[3])) > 0
    /\ fac.out.cmd.numPoints = 1 /\ fac.out.cmd.q.count = 2
    /\ fac.out.cmd.numBytes = getStride(ParseSchema(fac.args[3]))

(***************************************************************************)
(* Outcomes of the factory.                                                *)
(***************************************************************************)
CallableLast(args) == Len(args) > 0 /\ IsFunction(args[Len(args)])

FactoryErrors ==
    { "Invalid 'start' in 'read' request", "Invalid coords in query",
      "Invalid coord types in query", "Could not identify 'read' from args",
      "Host, port, and callback must be supplied" }

\* C14: called with a callable last argument, the factory either returns one
\* command (range, spatial or radius) without calling the callback, or returns
\* no command and calls the callback once with one validation message; with
\* valid host, port and schema and an argument list that has none of the
\* three shapes the message is the could-not-identify one.
C14_CommandOrError ==
    (fac.called /\ CallableLast(fac.args)) =>
        LET cmd == fac.out.cmd
            cb == fac.out.cb
        IN
        /\ ~fac.out.thrown
        /\ \/ /\ cmd.kind \in {"unindexed", "quadIndex", "pointRadius"}
              /\ cb = <<>>
           \/ /\ cmd = NoCommand
              /\ Len(cb) = 1 /\ Len(cb[1]) = 1
              /\ cb[1][1] \in FactoryErrors
        /\ (/\ HasHostPortSchema(fac.args)
            /\ \/ Len(fac.args) \notin {6, 7, 9}
               \/ /\ ~IsUnindexedShape(fac.args)
                  /\ ~IsQuadIndexShape(fac.args)
                  /\ ~IsPointRadiusShape(fac.args)) =>
                /\ cmd = NoCommand
                /\ cb = << <<"Could not identify 'read' from args">> >>

\* A call of 5 arguments with valid host, port and schema.
C14_Witness ==
    /\ fac.called /\ CallableLast(fac.args) /\ Len(fac.args) = 5
    /\ HasHostPortSchema(fac.args)
    /\ fac.out.cmd = NoCommand
    /\ fac.out.cb = << <<"Could not identify 'read' from args">> >>

(***************************************************************************)
(* Calls without a callback.                                               *)
(***************************************************************************)
\* C15: a read() call whose callback argument is missing or not callable
\* throws before anything else is done, whatever the other arguments are: the
\* callback is not called, no record and no token are created, the handle
\* does not come to track the request.
C15_MissingCallbackFatal ==
    \A r \in Reqs :
        (pc[r] # "unused" /\ ~asked[r].callable) =>
            /\ pc[r] = "fatal"
            /\ cbLog[r] = <<>>
            /\ rd[r] = NoReadData
            /\ tokens[r] = NoTokens
            /\ m_readData # r

(***************************************************************************)
(* Dispatch of 7-argument calls.                                           *)
(***************************************************************************)
\* C16: a 7-argument call yields a spatial (quad index) command only when
\* argument 3 is undefined or an array of exactly 4 numbers and arguments 4
\* and 5 are integers; with an array of any other length as argument 3 the
\* call is not taken for a spatial query.
C16_ExactlyFour ==
    (fac.called /\ CallableLast(fac.args) /\ Len(fac.args) = 7) =>
        LET bbox == fac.args[4] IN
        /\ fac.out.cmd.kind = "quadIndex" =>
                /\ \/ IsUndefined(bbox)
                   \/ /\ IsArray(bbox) /\ ArrayLength(bbox) = 4
                      /\ \A i \in 0..3 : IsNumber(ArrayGet(bbox, i))
                /\ isInteger(fac.args[5]) /\ isInteger(fac.args[6])
        /\ (HasHostPortSchema(fac.args)
                /\ IsArray(bbox) /\ ArrayLength(bbox) # 4) =>
                /\ fac.out.cmd = NoCommand
                /\ fac.out.cb = << <<"Could not identify 'read' from args">> >>

(***************************************************************************)
(* The cancellation flag.                                                  *)
(***************************************************************************)
\* C17: the flag of a command is false when its record is created and, for
\* as long as the record exists, goes from false to true only: no step takes
\* it back to false, and a command whose send loop has read it as true still
\* has it true.
C17_FlagMonotone ==
    /\ [](\A r \in Reqs : (sawCancel[r] /\ rd[r].alive) => rd[r].cancel)
    /\ [][\A r \in Reqs :
            /\ (~rd[r].alive /\ rd'[r].alive) => ~rd'[r].cancel
            /\ (rd[r].alive /\ rd[r].cancel /\ rd'[r].alive)
                    => rd'[r].cancel]_vars

\* A flag set during retrieval, stored again by a second cancel() call, and
\* read as true by the send loop.
C17_Witness ==
    \E r \in Reqs :
        /\ rd[r].alive /\ rd[r].cancel /\ sawCancel[r]
        /\ pc[r] = "sendDone" /\ sent[r] = <<>>
        /\ lastCancel.again

(***************************************************************************)
(* Schema resolution.                                                      *)
(***************************************************************************)
\* The dimension descriptors of a schema argument.
Descriptors(sc) == IF sc.t = "object" /\ sc.hasDims THEN sc.dims ELSE <<>>

RECURSIVE SumSizes(_)
SumSizes(descs) ==
    IF descs = <<>> THEN 0
    ELSE strtoul(Head(descs).size) + SumSizes(Tail(descs))

\* C18: the schema of a command holds the requested dimensions whose parsed
\* size is not zero, in the requested order and with nothing else, and the
\* stride is the sum of their sizes; when no such dimension is left the
\* schema is the session's native dimension list in its order.
C18_SchemaResolution ==
    (fac.called /\ fac.out.cmd.kind # "none") =>
        LET cmd == fac.out.cmd
            kept == SelectSeq(Descriptors(fac.args[3]),
                              LAMBDA d : strtoul(d.size) # 0)
        IN
        IF kept # <<>>
        THEN /\ Len(cmd.schema) = Len(kept)
             /\ \A i \in 1..Len(kept) :
                    /\ cmd.schema[i].name = kept[i].name
                    /\ cmd.schema[i].type = kept[i].type
                    /\ cmd.schema[i].size = strtoul(kept[i].size)
                    /\ cmd.schema[i].size # 0
             /\ cmd.stride = SumSizes(kept)
        ELSE /\ cmd.schema = NativeSchema
             /\ cmd.stride = 8 + 8 + 8 + 2

\* Three requested dimensions of which the second has size 0.
C18_Witness ==
    /\ fac.called /\ fac.out.cmd.kind # "none"
    /\ Len(Descriptors(fac.args[3])) = 3
    /\ strtoul(Descriptors(fac.args[3])[2].size) = 0
    /\ Len(fac.out.cmd.schema) = 2
    /\ fac.out.cmd.schema[1].name = "X" /\ fac.out.cmd.schema[2].name = "Z"
    /\ fac.out.cmd.stride = 12

(***************************************************************************)
(* Empty results.                                                          *)
(***************************************************************************)
\* The retrieval task returned without an exception and with no point.
EmptyResult(r) ==
    pc[r] = "readDone" /\ threw[r] = "none" /\ rd[r].numPoints = 0

\* C19: a retrieval that succeeds with 0 points is followed by the callback
\* (null, 0, 0), by a send task that transmits no chunk, and by the terminal
\* state with the buffer released; and whenever 0 points were reported, 0
\* bytes were reported and nothing is transmitted.
C19_EmptyResult ==
    /\ [](\A r \in Reqs :
            (Succeeded(r) /\ cbLog[r][1][2] = 0) =>
                cbLog[r][1][3] = 0 /\ sent[r] = <<>>)
    /\ \A r \in Reqs :
            EmptyResult(r)
                ~> (/\ pc[r] = "done"
                    /\ cbLog[r] = << <<"null", 0, 0>> >>
                    /\ sent[r] = <<>>
                    /\ rd[r].data = "freed" /\ dataDeletes[r] = 1)

\* A request for 0 points of a dataset that has points, at its end.
C19_Witness ==
    \E r \in Reqs :
        /\ pc[r] = "done" /\ threw[r] = "none"
        /\ asked[r].typed /\ asked[r].count = 0 /\ session.numPoints > 0
        /\ cbLog[r] = << <<"null", 0, 0>> >>
        /\ sent[r] = <<>> /\ rd[r].data = "freed"

(***************************************************************************)
(* Several commands on one handle.                                         *)
(***************************************************************************)
\* The request accepted last, NULL when none was.
LatestAccepted ==
    IF \E r \in Reqs : Accepted(r)
    THEN CHOOSE r \in Reqs :
            Accepted(r) /\ \A q \in Reqs : Accepted(q) => q <= r
    ELSE NULL

\* An earlier command than the one the handle tracks is still in flight.
EarlierInFlight ==
    \E q \in Reqs : q < m_readData /\ Accepted(q) /\ ~Terminal(q)

\* C20: the handle tracks the command accepted last and no other; with an
\* earlier command still in flight, a cancel() call sets the flag of the
\* command accepted last and changes nothing of any other command: not its
\* flag, its transmission or its buffer; no buffer is ever released twice.
C20_LatestOnly ==
    [][/\ m_readData' = LatestAccepted'
       /\ \A r \in Reqs : dataDeletes'[r] <= 1
       /\ (PdalBindings_cancel /\ EarlierInFlight) =>
            /\ m_readData # NULL =>
                    /\ rd[m_readData].alive
                    /\ rd'[m_readData].cancel
            /\ \A r \in Reqs \ {m_readData} : rd'[r] = rd[r]
            /\ sent' = sent /\ dataDeletes' = dataDeletes /\ pc' = pc]_vars

(***************************************************************************)
(* cancel() and the two cleanups.                                          *)
(***************************************************************************)
\* C21: whenever cancel() finds the handle's pointer set and goes through it
\* (the store of line 414), the record it points to has not been deleted:
\* neither by the cleanup after a failed retrieval (lines 319-320) nor by
\* the cleanup after the transmission (lines 390-391).
C21_CancelTouchesLive ==
    [][(PdalBindings_cancel /\ m_readData # NULL)
            => rd[m_readData].alive]_vars

(***************************************************************************)
(* cancel() during the retrieval.                                          *)
(***************************************************************************)
\* The flag of r was set while its retrieval task was queued, running or
\* waiting for its after-work callback.
CancelledInRetrieval(r) ==
    rd[r].cancel /\ pc[r] \in {"readQueued", "readDone"}

\* What the counts callback reports for the range r asked for.
ExpectedCounts(r) ==
    LET n == PdalSession_read(asked[r].start, asked[r].count)
    IN  <<"null", n, n * session.stride>>

\* C22: a command whose flag is set during its retrieval still ends its
\* retrieval as it would have: when the retrieval did not throw, the
\* callback is made once with (null, numPoints, numBytes) of the range
\* asked for, the send task then reads the flag as true, transmits no chunk,
\* and the buffer is released; when the retrieval threw on its own account
\* the command ends as a failed or empty one does, with one callback, no
\* chunk and delete[] run once.
C22_CancelInRetrieval ==
    \A r \in Reqs :
        CancelledInRetrieval(r)
            ~> (/\ Terminal(r)
                /\ Len(cbLog[r]) = 1 /\ sent[r] = <<>>
                /\ dataDeletes[r] = 1 /\ rd[r].data \in {"freed", "null"}
                /\ threw[r] = "none" =>
                        /\ pc[r] = "done"
                        /\ cbLog[r][1] = ExpectedCounts(r)
                        /\ sawCancel[r] /\ ~aborted[r]
                        /\ rd[r].data = "freed")

\* The counts callback reported a buffer that is not empty for a command
\* cancelled before its send task was queued.
C22_Witness ==
    \E r \in Reqs :
        /\ pc[r] = "sendQueued" /\ rd[r].cancel /\ ~racy[r]
        /\ threw[r] = "none" /\ cbLog[r] = <<ExpectedCounts(r)>>
        /\ ReportedBytes(r) > chunkSize

(***************************************************************************)
(* Frame of a rejected read().                                             *)
(***************************************************************************)
\* The step is a read() call that ends in a rejection of request r: the
\* error callback for an argument of a wrong type or for a start offset
\* that is not below the point count, or the exception for a callback that
\* is not callable.
RejectsRead(r) ==
    /\ PdalBindings_read
    /\ pc[r] = "unused" /\ pc'[r] \in {"rejected", "fatal"}

\* C23: a read() call that is rejected creates no record and no work token
\* for its request and changes neither the command the handle tracks nor
\* anything of the other requests: their records (flag, counts, buffer),
\* tokens, position in the pipeline, callbacks and chunks.
C23_RejectedReadFrame ==
    [][\A r \in Reqs :
        RejectsRead(r) =>
            /\ m_readData' = m_readData
            /\ rd' = rd /\ ~rd'[r].alive
            /\ tokens' = tokens /\ tokens'[r] = NoTokens
            /\ sent' = sent /\ dataDeletes' = dataDeletes
            /\ \A q \in Reqs \ {r} :
                    pc'[q] = pc[q] /\ cbLog'[q] = cbLog[q]]_vars

\* A request rejected for its start offset while the command before it is
\* tracked by the handle, cancelled and still waiting for its retrieval.
C23_Witness ==
    \E q, r \in Reqs :
        /\ q < r /\ m_readData = q
        /\ pc[q] = "readQueued" /\ rd[q].cancel
        /\ pc[r] = "rejected" /\ asked[r].typed

(***************************************************************************)
(* The uv_work_t tokens.                                                   *)
(***************************************************************************)
\* C24: no work token outlives its command: once a command is terminal,
\* after a completed or cancelled transmission as well as after a failed
\* retrieval, its retrieval token has been deleted and so has its send
\* token if one was allocated; a token is never deleted before its task's
\* after-work callback has started.
C24_TokensFreed ==
    \A r \in Reqs :
        /\ Terminal(r) =>
                /\ tokens[r].readReq = "freed"
                /\ tokens[r].sendReq \in {"none", "freed"}
        /\ pc[r] = "readQueued" => tokens[r].readReq = "alloc"
        /\ InTransmission(r) => tokens[r].sendReq = "alloc"

====
